---- MODULE Spec2Model ----
(***************************************************************************)
(* Model of iXBRLViewer.py: the NamespaceMap prefix allocator, the         *)
(* IXBRLViewerBuilder fact/concept pipeline (saveViewer, addConcept), the  *)
(* JSON-in-script escaping and the final file write.                       *)
(*                                                                         *)
(* Python strings that the code builds or inspects character by character  *)
(* (prefixes, fact ids, JSON text) are sequences of one-character strings; *)
(* opaque strings (namespace URIs, local names, label text) are atoms.     *)
(***************************************************************************)
EXTENDS Integers, Sequences, FiniteSets, TLC

VARIABLES
    \* one NamespaceMap instance driven directly through getPrefix
    alloc, call,
    \* one IXBRLViewerBuilder running saveViewer over one document model
    pc, docFacts, fid, idx, idGen, nsmap, roleMap, taxonomyData,
    conceptName, dims, todoDims, calls, lastAdd, outFile,
    \* one JSON string value taken through dumps / escape / parse
    epc, value, payload, escaped, decoded

allocVars == <<alloc, call>>
buildVars == <<pc, docFacts, fid, idx, idGen, nsmap, roleMap, taxonomyData,
               conceptName, dims, todoDims, calls, lastAdd, outFile>>
escVars == <<epc, value, payload, escaped, decoded>>
vars == <<allocVars, buildVars, escVars>>

----------------------------------------------------------------------------
(* Bounds *)

NumNs == 3          \* distinct identifiers offered to the stand-alone allocator
MaxFacts == 3       \* longest fact list of a document model
MaxLen == 3         \* longest JSON string value

----------------------------------------------------------------------------
(* Python values *)

\* Python's None, kept distinct from every string of single characters
None == <<"None">>

\* Python truthiness of an optional string: None and "" are both falsy
Truthy(s) == s # None /\ s # <<>>

\* an empty dict
EmptyDict == [k \in {} |-> k]

Digits == <<"0", "1", "2", "3", "4", "5", "6", "7", "8", "9">>

\* "%d" % n
RECURSIVE FormatInt(_)
FormatInt(n) ==
    IF n < 10 THEN <<Digits[n + 1]>>
    ELSE FormatInt(n \div 10) \o <<Digits[(n % 10) + 1]>>

\* "%s%d" % (p, n)
FormatPrefix(p, n) == p \o FormatInt(n)

----------------------------------------------------------------------------
(* NamespaceMap *)

\* NamespaceMap.__init__
NewNamespaceMap == [nsmap |-> EmptyDict, prefixmap |-> EmptyDict]

\* the while loop of getPrefix: the first n, counting up, whose candidate is free
RECURSIVE FirstFree(_, _, _)
FirstFree(prefixmap, p, n) ==
    IF FormatPrefix(p, n) \in DOMAIN prefixmap
    THEN FirstFree(prefixmap, p, n + 1)
    ELSE n

\* mutant: the preferred prefix is taken without looking it up in prefixmap
getPrefix_NoUsedCheck(m, ns, preferredPrefix) ==
    LET prefix == IF ns \in DOMAIN m.nsmap THEN m.nsmap[ns] ELSE None IN
    IF Truthy(prefix) THEN [map |-> m, prefix |-> prefix]
    ELSE
        LET p == IF Truthy(preferredPrefix) THEN preferredPrefix ELSE <<"n", "s">>
            new == IF Truthy(preferredPrefix)
                   THEN preferredPrefix
                   ELSE FormatPrefix(p, FirstFree(m.prefixmap, p, 0))
        IN [map |-> [nsmap |-> (ns :> new) @@ m.nsmap,
                     prefixmap |-> (new :> ns) @@ m.prefixmap],
            prefix |-> new]

\* mutant: an existing binding is honoured only when no preferred prefix is passed
getPrefix_Rebind(m, ns, preferredPrefix) ==
    LET prefix == IF ns \in DOMAIN m.nsmap /\ ~Truthy(preferredPrefix)
                  THEN m.nsmap[ns] ELSE None IN
    IF Truthy(prefix) THEN [map |-> m, prefix |-> prefix]
    ELSE
        LET p == IF Truthy(preferredPrefix) THEN preferredPrefix ELSE <<"n", "s">>
            new == IF Truthy(preferredPrefix) /\ preferredPrefix \notin DOMAIN m.prefixmap
                   THEN preferredPrefix
                   ELSE FormatPrefix(p, FirstFree(m.prefixmap, p, 0))
        IN [map |-> [nsmap |-> (ns :> new) @@ m.nsmap,
                     prefixmap |-> (new :> ns) @@ m.prefixmap],
            prefix |-> new]

\* mutant: the suffix search starts at 1 instead of 0
getPrefix_FromOne(m, ns, preferredPrefix) ==
    LET prefix == IF ns \in DOMAIN m.nsmap THEN m.nsmap[ns] ELSE None IN
    IF Truthy(prefix) THEN [map |-> m, prefix |-> prefix]
    ELSE
        LET p == IF Truthy(preferredPrefix) THEN preferredPrefix ELSE <<"n", "s">>
            new == IF Truthy(preferredPrefix) /\ preferredPrefix \notin DOMAIN m.prefixmap
                   THEN preferredPrefix
                   ELSE FormatPrefix(p, FirstFree(m.prefixmap, p, 1))
        IN [map |-> [nsmap |-> (ns :> new) @@ m.nsmap,
                     prefixmap |-> (new :> ns) @@ m.prefixmap],
            prefix |-> new]

\* NamespaceMap.getPrefix: the allocator after the call and the value returned
getPrefix(m, ns, preferredPrefix) ==
    LET prefix == IF ns \in DOMAIN m.nsmap THEN m.nsmap[ns] ELSE None IN
    IF Truthy(prefix) THEN [map |-> m, prefix |-> prefix]
    ELSE
        LET p == IF Truthy(preferredPrefix) THEN preferredPrefix ELSE <<"n", "s">>
            new == IF Truthy(preferredPrefix) /\ preferredPrefix \notin DOMAIN m.prefixmap
                   THEN preferredPrefix
                   ELSE FormatPrefix(p, FirstFree(m.prefixmap, p, 0))
        IN [map |-> [nsmap |-> (ns :> new) @@ m.nsmap,
                     prefixmap |-> (new :> ns) @@ m.prefixmap],
            prefix |-> new]

\* NamespaceMap.qname: "%s:%s" % (getPrefix(namespaceURI, prefix), localName)
qname(m, q) ==
    LET r == getPrefix(m, q.namespaceURI, q.prefix) IN
    [map |-> r.map, name |-> r.prefix \o <<":">> \o <<q.localName>>]

----------------------------------------------------------------------------
(* The stand-alone allocator: any sequence of getPrefix calls *)

NsPool == <<"nsA", "nsB", "nsC", "nsD", "nsE", "nsF">>
Identifiers == {NsPool[i] : i \in 1..NumNs}

\* preferred prefixes offered: absent, empty, plain, and ones shaped like
\* synthesized prefixes
PreferredPrefixes == {None, <<>>, <<"x">>, <<"x", "0">>, <<"n", "s", "0">>}

NoCall == [ns |-> "", preferredPrefix |-> None, ret |-> None,
           before |-> NewNamespaceMap]

AllocIdle == alloc = NewNamespaceMap /\ call = NoCall

CallGetPrefix ==
    \E ns \in Identifiers, pp \in PreferredPrefixes :
        LET r == getPrefix(alloc, ns, pp) IN
        /\ alloc' = r.map
        /\ call' = [ns |-> ns, preferredPrefix |-> pp, ret |-> r.prefix,
                    before |-> alloc]
        /\ UNCHANGED <<buildVars, escVars>>

----------------------------------------------------------------------------
(* The document model queried by IXBRLViewerBuilder *)

QName(ns, prefix, localName) ==
    [namespaceURI |-> ns, prefix |-> prefix, localName |-> localName]

\* None where a QName is expected (the memberQname of a typed dimension)
NoQName == QName("", None, "")

QAssets == QName("nsA", <<"x">>, "Assets")
\* same prefix and local name as QAssets, in another namespace
QOther == QName("nsB", <<"x">>, "Assets")
QAxis == QName("nsA", <<"x">>, "Axis")
QTypedAxis == QName("nsA", <<"x">>, "TypedAxis")
\* declared without a prefix
QMember == QName("nsC", None, "Member")
QUsd == QName("iso", <<"i", "s", "o">>, "USD")

\* datetime.isoformat(): the date, then "T" and the time of day
IsoFormat(date, time) == <<date, "T" \o time>>

\* re.sub("T00:00:00$", "", d)
dateFormat(d) ==
    IF Len(d) > 0 /\ d[Len(d)] = "T00:00:00" THEN SubSeq(d, 1, Len(d) - 1) ELSE d

Fact(id, q, qnameDims, isNumeric, period) ==
    [id |-> id, qname |-> q, qnameDims |-> qnameDims, isNumeric |-> isNumeric,
     unit |-> IF isNumeric THEN QUsd ELSE NoQName,
     format |-> IF isNumeric THEN "ixt:numdotdecimal" ELSE "None",
     value |-> IF isNumeric THEN "100" ELSE "text",
     period |-> period,
     instantDatetime |-> IsoFormat("2023-01-01", "00:00:00"),
     startDatetime |-> IsoFormat("2022-01-01", "00:00:00"),
     endDatetime |-> IsoFormat("2023-01-01", "08:30:00")]

ExplicitDim == [dimensionQname |-> QAxis, memberQname |-> QMember]
TypedDim == [dimensionQname |-> QTypedAxis, memberQname |-> NoQName]

\* the facts a document model is assembled from: with and without an id
\* (one id shaped like a generated one), every period kind, numeric and not,
\* with no, a typed, and an explicit dimensional qualifier
FactPool == <<
    Fact(None, QAssets, <<>>, TRUE, "instant"),
    Fact(None, QOther, <<ExplicitDim>>, FALSE, "startEnd"),
    Fact(<<"i", "x", "v", "-", "1">>, QAssets, <<TypedDim>>, TRUE, "forever"),
    Fact(<<"f", "1">>, QOther, <<TypedDim, ExplicitDim>>, FALSE, "instant"),
    Fact(None, QAxis, <<>>, FALSE, "forever") >>

\* fact lists: ids present in the source document are unique (XML ids)
FactLists ==
    {s \in UNION {[1..n -> {FactPool[i] : i \in DOMAIN FactPool}] : n \in 0..MaxFacts} :
        \A i, j \in DOMAIN s : (i # j /\ s[i].id # None) => s[i].id # s[j].id}

standardLabel == "http://www.xbrl.org/2003/role/label"
documentationLabel == "http://www.xbrl.org/2003/role/documentation"
terseLabel == "http://www.xbrl.org/2003/role/terseLabel"

Label(role, xmlLang, text) == [role |-> role, xmlLang |-> xmlLang, text |-> text]

\* what relationshipSet(conceptLabel).fromModelObject(concept) may return
LabelChoices == {
    <<>>,
    <<Label(standardLabel, "en", "Assets")>>,
    <<Label(terseLabel, "EN", "A"), Label(standardLabel, "en", "Total assets")>> }

\* str.lower() on the language tags in use
Lower(xmlLang) == IF xmlLang = "EN" THEN "en" ELSE xmlLang

----------------------------------------------------------------------------
(* IXBRLViewerBuilder *)

NoAdd == [name |-> None, labels |-> <<>>, existed |-> FALSE]

\* IXBRLViewerBuilder.__init__, with the document model and the output path
BuildInit ==
    /\ pc = "new"
    /\ docFacts \in FactLists
    /\ fid = [i \in DOMAIN docFacts |-> docFacts[i].id]
    /\ idx = 0
    /\ idGen = 0
    /\ nsmap = NewNamespaceMap
    /\ roleMap = NewNamespaceMap
    /\ taxonomyData = [concepts |-> EmptyDict, facts |-> EmptyDict]
    /\ conceptName = None
    /\ dims = EmptyDict
    /\ todoDims = <<>>
    /\ calls = <<>>
    /\ lastAdd = NoAdd
    /\ outFile = "previous"

BuildIdle ==
    /\ pc = "idle"
    /\ docFacts = <<>>
    /\ fid = <<>>
    /\ idx = 0
    /\ idGen = 0
    /\ nsmap = NewNamespaceMap
    /\ roleMap = NewNamespaceMap
    /\ taxonomyData = [concepts |-> EmptyDict, facts |-> EmptyDict]
    /\ conceptName = None
    /\ dims = EmptyDict
    /\ todoDims = <<>>
    /\ calls = <<>>
    /\ lastAdd = NoAdd
    /\ outFile = "previous"

\* mutant: the label roles are not seeded before the facts are processed
saveViewerBegin_NoSeed ==
    /\ pc = "new"
    /\ idGen' = 0
    /\ pc' = "loop"
    /\ UNCHANGED <<docFacts, fid, idx, nsmap, roleMap, taxonomyData, conceptName,
                   dims, todoDims, calls, lastAdd, outFile, allocVars, escVars>>

\* saveViewer, up to the fact loop: idGen = 0 and the two seeded label roles
saveViewerBegin ==
    /\ pc = "new"
    /\ idGen' = 0
    /\ LET std == getPrefix(roleMap, standardLabel, <<"s", "t", "d">>)
           doc == getPrefix(std.map, documentationLabel, <<"d", "o", "c">>)
       IN roleMap' = doc.map
    /\ pc' = "loop"
    /\ UNCHANGED <<docFacts, fid, idx, nsmap, taxonomyData, conceptName,
                   dims, todoDims, calls, lastAdd, outFile, allocVars, escVars>>

\* "ixv-%d" % (idGen)
GeneratedId(n) == <<"i", "x", "v", "-">> \o FormatInt(n)

\* mutant: the counter advances only when an id is generated
BeginFact_CountGenerated ==
    /\ pc = "loop"
    /\ calls = <<>>
    /\ idx < Len(docFacts)
    /\ LET f == docFacts[idx + 1]
           cn == qname(nsmap, f.qname)
       IN /\ fid' = IF fid[idx + 1] = None
                    THEN [fid EXCEPT ![idx + 1] = GeneratedId(idGen)]
                    ELSE fid
          /\ idGen' = IF fid[idx + 1] = None THEN idGen + 1 ELSE idGen
          /\ nsmap' = cn.map
          /\ conceptName' = cn.name
          /\ dims' = EmptyDict
          /\ todoDims' = f.qnameDims
    /\ idx' = idx + 1
    /\ pc' = "dims"
    /\ UNCHANGED <<docFacts, roleMap, taxonomyData, calls, lastAdd, outFile,
                   allocVars, escVars>>

\* the head of one loop iteration: the fact's id, the counter, its concept name
BeginFact ==
    /\ pc = "loop"
    /\ calls = <<>>
    /\ idx < Len(docFacts)
    /\ LET f == docFacts[idx + 1]
           cn == qname(nsmap, f.qname)
       IN /\ fid' = IF fid[idx + 1] = None
                    THEN [fid EXCEPT ![idx + 1] = GeneratedId(idGen)]
                    ELSE fid
          /\ idGen' = idGen + 1
          /\ nsmap' = cn.map
          /\ conceptName' = cn.name
          /\ dims' = EmptyDict
          /\ todoDims' = f.qnameDims
    /\ idx' = idx + 1
    /\ pc' = "dims"
    /\ UNCHANGED <<docFacts, roleMap, taxonomyData, calls, lastAdd, outFile,
                   allocVars, escVars>>

\* a typed dimension (memberQname is None) is skipped
TypedDimension ==
    /\ pc = "dims"
    /\ calls = <<>>
    /\ todoDims # <<>>
    /\ Head(todoDims).memberQname = NoQName
    /\ todoDims' = Tail(todoDims)
    /\ UNCHANGED <<pc, docFacts, fid, idx, idGen, nsmap, roleMap, taxonomyData,
                   conceptName, dims, calls, lastAdd, outFile, allocVars, escVars>>

\* an explicit dimension: dims[qname(dimension)] = qname(member), then
\* addConcept(v.dimension) and addConcept(v.member)
ExplicitDimension ==
    /\ pc = "dims"
    /\ calls = <<>>
    /\ todoDims # <<>>
    /\ Head(todoDims).memberQname # NoQName
    /\ LET v == Head(todoDims)
           \* Python evaluates the assigned value before the subscript
           mem == qname(nsmap, v.memberQname)
           dim == qname(mem.map, v.dimensionQname)
       IN /\ nsmap' = dim.map
          /\ dims' = (dim.name :> mem.name) @@ dims
          /\ calls' = <<v.dimensionQname, v.memberQname>>
    /\ todoDims' = Tail(todoDims)
    /\ UNCHANGED <<pc, docFacts, fid, idx, idGen, roleMap, taxonomyData,
                   conceptName, lastAdd, outFile, allocVars, escVars>>

\* the for loop of addConcept over the label relationships, from the i-th on
RECURSIVE CollectLabels(_, _, _, _)
CollectLabels(labels, i, rm, acc) ==
    IF i > Len(labels) THEN [roleMap |-> rm, labels |-> acc]
    ELSE
        LET l == labels[i]
            r == getPrefix(rm, l.role, None)
            inner == IF r.prefix \in DOMAIN acc THEN acc[r.prefix] ELSE EmptyDict
        IN CollectLabels(labels, i + 1, r.map,
               (r.prefix :> ((Lower(l.xmlLang) :> l.text) @@ inner)) @@ acc)

\* mutant: the concept is rebuilt even when its name is already recorded
addConcept_NoGuard ==
    /\ calls # <<>>
    /\ \E labels \in LabelChoices :
        LET cn == qname(nsmap, Head(calls))
            c == CollectLabels(labels, 1, roleMap, EmptyDict)
        IN /\ nsmap' = cn.map
           /\ roleMap' = c.roleMap
           /\ taxonomyData' = [taxonomyData EXCEPT !.concepts =
                                  (cn.name :> [labels |-> c.labels]) @@ @]
           /\ lastAdd' = [name |-> cn.name, labels |-> labels,
                          existed |-> cn.name \in DOMAIN taxonomyData.concepts]
    /\ calls' = Tail(calls)
    /\ UNCHANGED <<pc, docFacts, fid, idx, idGen, conceptName, dims, todoDims,
                   outFile, allocVars, escVars>>

\* IXBRLViewerBuilder.addConcept, for the next pending call
addConcept ==
    /\ calls # <<>>
    /\ \E labels \in LabelChoices :
        LET cn == qname(nsmap, Head(calls))
            c == CollectLabels(labels, 1, roleMap, EmptyDict)
        IN /\ nsmap' = cn.map
           /\ IF cn.name \notin DOMAIN taxonomyData.concepts
              THEN /\ roleMap' = c.roleMap
                   /\ taxonomyData' = [taxonomyData EXCEPT !.concepts =
                                          (cn.name :> [labels |-> c.labels]) @@ @]
              ELSE UNCHANGED <<roleMap, taxonomyData>>
           /\ lastAdd' = [name |-> cn.name, labels |-> labels,
                          existed |-> cn.name \in DOMAIN taxonomyData.concepts]
    /\ calls' = Tail(calls)
    /\ UNCHANGED <<pc, docFacts, fid, idx, idGen, conceptName, dims, todoDims,
                   outFile, allocVars, escVars>>

\* the period members of factData
PeriodData(f) ==
    IF f.period = "instant"
    THEN "pt" :> dateFormat(f.instantDatetime)
    ELSE IF f.period = "startEnd"
    THEN ("pf" :> dateFormat(f.startDatetime)) @@ ("pt" :> dateFormat(f.endDatetime))
    ELSE EmptyDict

\* the rest of one loop iteration: unit, factData, facts[f.id] = factData,
\* then addConcept(f.concept)
StoreFact ==
    /\ pc = "dims"
    /\ calls = <<>>
    /\ todoDims = <<>>
    /\ LET f == docFacts[idx]
           u == IF f.isNumeric THEN qname(nsmap, f.unit)
                ELSE [map |-> nsmap, name |-> None]
           factData == PeriodData(f) @@
                       [f |-> f.format, v |-> f.value, c |-> conceptName,
                        d |-> dims, u |-> u.name]
       IN /\ nsmap' = u.map
          /\ taxonomyData' = [taxonomyData EXCEPT !.facts =
                                 [k \in DOMAIN @ \cup {fid[idx]} |->
                                     IF k = fid[idx] THEN factData ELSE @[k]]]
          /\ calls' = <<f.qname>>
    /\ pc' = "loop"
    /\ UNCHANGED <<docFacts, fid, idx, idGen, roleMap, conceptName, dims, todoDims,
                   lastAdd, outFile, allocVars, escVars>>

\* after the loop: the prefixes and roles members, then the payload is
\* serialized and spliced into the markup
Assemble ==
    /\ pc = "loop"
    /\ calls = <<>>
    /\ idx = Len(docFacts)
    /\ taxonomyData' = [prefixes |-> nsmap.prefixmap, roles |-> roleMap.prefixmap]
                       @@ taxonomyData
    /\ pc' = "assembled"
    /\ UNCHANGED <<docFacts, fid, idx, idGen, nsmap, roleMap, conceptName, dims,
                   todoDims, calls, lastAdd, outFile, allocVars, escVars>>

\* open(outFile, "wb"): truncates the file, or raises and leaves it alone
OpenOutFile ==
    /\ pc = "assembled"
    /\ \/ outFile' = "empty" /\ pc' = "opened"
       \/ outFile' = outFile /\ pc' = "failed"
    /\ UNCHANGED <<docFacts, fid, idx, idGen, nsmap, roleMap, taxonomyData,
                   conceptName, dims, todoDims, calls, lastAdd, allocVars, escVars>>

\* etree.tostring(...), evaluated inside the with block: returns or raises
Serialize ==
    /\ pc = "opened"
    /\ pc' \in {"serialized", "failed"}
    /\ UNCHANGED <<docFacts, fid, idx, idGen, nsmap, roleMap, taxonomyData,
                   conceptName, dims, todoDims, calls, lastAdd, outFile,
                   allocVars, escVars>>

\* fout.write(...) and the close on leaving the with block: all the bytes
\* reach the file, or the write raises after none or some of them did
WriteOutFile ==
    /\ pc = "serialized"
    /\ \/ outFile' = "complete" /\ pc' = "done"
       \/ outFile' \in {"empty", "partial"} /\ pc' = "failed"
    /\ UNCHANGED <<docFacts, fid, idx, idGen, nsmap, roleMap, taxonomyData,
                   conceptName, dims, todoDims, calls, lastAdd, allocVars, escVars>>

----------------------------------------------------------------------------
(* Embedding the JSON payload in a script element *)

\* characters of the string values taken through the round trip
ValueChars == {"<", ">", "&", "\\", "\"", "u", "a"}

Strings == UNION {[1..n -> ValueChars] : n \in 0..MaxLen}

\* json.dumps of one string value: quoted, with \ and " escaped
RECURSIVE JsonEscape(_)
JsonEscape(s) ==
    IF s = <<>> THEN <<>>
    ELSE (IF Head(s) \in {"\\", "\""} THEN <<"\\", Head(s)>> ELSE <<Head(s)>>)
         \o JsonEscape(Tail(s))

JsonDumps(v) == <<"\"">> \o JsonEscape(v) \o <<"\"">>

\* str.replace(old, new) for a one-character old
RECURSIVE Replace(_, _, _)
Replace(s, old, new) ==
    IF s = <<>> THEN <<>>
    ELSE (IF Head(s) = old THEN new ELSE <<Head(s)>>) \o Replace(Tail(s), old, new)

U003C == <<"\\", "u", "0", "0", "3", "C">>
U003E == <<"\\", "u", "0", "0", "3", "E">>
U0026 == <<"\\", "u", "0", "0", "2", "6">>

\* mutant: '<' is escaped the XML way before the other two replacements run
escapeJSONForScriptTag_XmlEntity(s) ==
    Replace(Replace(Replace(s, "<", <<"&", "l", "t", ";">>), ">", U003E), "&", U0026)

\* IXBRLViewerBuilder.escapeJSONForScriptTag
escapeJSONForScriptTag(s) ==
    Replace(Replace(Replace(s, "<", U003C), ">", U003E), "&", U0026)

\* the character a \uXXXX escape stands for
UnicodeChar(hex) ==
    CASE hex = <<"0", "0", "3", "C">> -> "<"
      [] hex = <<"0", "0", "3", "E">> -> ">"
      [] hex = <<"0", "0", "2", "6">> -> "&"
      [] OTHER -> "?"

\* a JSON parser reading one string literal from position i on
RECURSIVE ParseString(_, _, _)
ParseString(t, i, acc) ==
    IF i > Len(t) THEN [ok |-> FALSE, value |-> acc]
    ELSE IF t[i] = "\"" THEN [ok |-> i = Len(t), value |-> acc]
    ELSE IF t[i] # "\\" THEN ParseString(t, i + 1, Append(acc, t[i]))
    ELSE IF i + 1 > Len(t) THEN [ok |-> FALSE, value |-> acc]
    ELSE IF t[i + 1] \in {"\\", "\""} THEN ParseString(t, i + 2, Append(acc, t[i + 1]))
    ELSE IF t[i + 1] = "u" /\ i + 5 <= Len(t)
         THEN ParseString(t, i + 6, Append(acc, UnicodeChar(SubSeq(t, i + 2, i + 5))))
    ELSE [ok |-> FALSE, value |-> acc]

JsonLoads(t) ==
    IF Len(t) > 0 /\ t[1] = "\"" THEN ParseString(t, 2, <<>>)
    ELSE [ok |-> FALSE, value |-> <<>>]

NotParsed == [ok |-> FALSE, value |-> <<>>]

EscInit ==
    /\ epc = "value"
    /\ value \in Strings
    /\ payload = <<>>
    /\ escaped = <<>>
    /\ decoded = NotParsed

EscIdle ==
    /\ epc = "idle"
    /\ value = <<>>
    /\ payload = <<>>
    /\ escaped = <<>>
    /\ decoded = NotParsed

\* json.dumps(...) in saveViewer
DumpPayload ==
    /\ epc = "value"
    /\ payload' = JsonDumps(value)
    /\ epc' = "dumped"
    /\ UNCHANGED <<value, escaped, decoded, allocVars, buildVars>>

\* escapeJSONForScriptTag(...) in saveViewer
EscapePayload ==
    /\ epc = "dumped"
    /\ escaped' = escapeJSONForScriptTag(payload)
    /\ epc' = "escaped"
    /\ UNCHANGED <<value, payload, decoded, allocVars, buildVars>>

\* the consumer of the script element parses its text as JSON
ParsePayload ==
    /\ epc = "escaped"
    /\ decoded' = JsonLoads(escaped)
    /\ epc' = "parsed"
    /\ UNCHANGED <<value, payload, escaped, allocVars, buildVars>>

----------------------------------------------------------------------------
(* Specifications *)

\* one build: IXBRLViewerBuilder(dts).saveViewer(outFile)
Init == BuildInit /\ AllocIdle /\ EscIdle

Next ==
    \/ saveViewerBegin
    \/ BeginFact
    \/ TypedDimension
    \/ ExplicitDimension
    \/ addConcept
    \/ StoreFact
    \/ Assemble
    \/ OpenOutFile
    \/ Serialize
    \/ WriteOutFile

Spec == Init /\ [][Next]_vars

\* one NamespaceMap under arbitrary getPrefix calls
AllocInit == AllocIdle /\ BuildIdle /\ EscIdle

AllocNext == CallGetPrefix

SpecAlloc == AllocInit /\ [][AllocNext]_vars

\* one string value through dumps, escape and parse
EscapeInit == EscInit /\ AllocIdle /\ BuildIdle

EscapeNext ==
    \/ DumpPayload
    \/ EscapePayload
    \/ ParsePayload

SpecEscape == EscapeInit /\ [][EscapeNext]_vars

----------------------------------------------------------------------------
(* Properties of NamespaceMap, checked under SpecAlloc *)

\* C1: no two distinct identifiers are bound to the same prefix, and nsmap
\* and prefixmap are exact inverses of each other, after any sequence of
\* getPrefix calls
C1_PrefixUniqueness ==
    LET n == alloc.nsmap
        p == alloc.prefixmap
    IN /\ \A a, b \in DOMAIN n : a # b => n[a] # n[b]
       /\ \A a \in DOMAIN n : n[a] \in DOMAIN p /\ p[n[a]] = a
       /\ \A x \in DOMAIN p : p[x] \in DOMAIN n /\ n[p[x]] = x

\* a preferred prefix shaped like a synthesized one was itself taken, and the
\* new identifier got a fresh prefix next to two earlier bindings
C1_Witness ==
    /\ call.ns \notin DOMAIN call.before.nsmap
    /\ call.preferredPrefix = <<"x", "0">>
    /\ call.preferredPrefix \in DOMAIN call.before.prefixmap
    /\ call.ret = <<"x", "0", "0">>
    /\ Cardinality(DOMAIN alloc.nsmap) >= 3

\* C2: a call for a bound identifier returns the bound prefix and changes
\* nothing, whatever preferred prefix is passed; no call changes or removes a
\* binding, and a call adds at most one
C2_PrefixStability ==
    [][ /\ call'.ns \in DOMAIN alloc.nsmap =>
              /\ call'.ret = alloc.nsmap[call'.ns]
              /\ alloc' = alloc
        /\ \A a \in DOMAIN alloc.nsmap :
              a \in DOMAIN alloc'.nsmap /\ alloc'.nsmap[a] = alloc.nsmap[a]
        /\ \A x \in DOMAIN alloc.prefixmap :
              x \in DOMAIN alloc'.prefixmap /\ alloc'.prefixmap[x] = alloc.prefixmap[x]
        /\ Cardinality(DOMAIN alloc'.nsmap) <= Cardinality(DOMAIN alloc.nsmap) + 1
        /\ Cardinality(DOMAIN alloc'.prefixmap) <= Cardinality(DOMAIN alloc.prefixmap) + 1
      ]_allocVars

\* a bound identifier was asked for again with a free preferred prefix other
\* than its own, after other identifiers had been allocated
C2_Witness ==
    /\ call.ns \in DOMAIN call.before.nsmap
    /\ Truthy(call.preferredPrefix)
    /\ call.preferredPrefix \notin DOMAIN call.before.prefixmap
    /\ call.ret # call.preferredPrefix
    /\ call.ret = call.before.nsmap[call.ns]
    /\ Cardinality(DOMAIN call.before.nsmap) >= 2

\* the smallest n >= 0 whose candidate p<n> is not an assigned prefix
SmallestFreeSuffix(prefixmap, p) ==
    CHOOSE n \in 0..Cardinality(DOMAIN prefixmap) :
        /\ FormatPrefix(p, n) \notin DOMAIN prefixmap
        /\ \A k \in 0..(n - 1) : FormatPrefix(p, k) \in DOMAIN prefixmap

----------------------------------------------------------------------------
(* Properties of one build, checked under Spec *)

Assembled == pc \in {"assembled", "opened", "serialized", "done", "failed"}

\* C4: the counter equals the number of facts begun, a fact without an id
\* gets "ixv-<number of facts before it>", a fact with an id keeps it, and no
\* Fact Record is stored under None; three id-less facts get ixv-0, ixv-1, ixv-2
C4_FactIdentifierAssignment ==
    /\ idGen = idx
    /\ \A i \in 1..idx :
          fid[i] = IF docFacts[i].id = None
                   THEN <<"i", "x", "v", "-">> \o FormatInt(i - 1)
                   ELSE docFacts[i].id
    /\ \A i \in (idx + 1)..Len(docFacts) : fid[i] = docFacts[i].id
    /\ \A k \in DOMAIN taxonomyData.facts : k # None
    /\ (Assembled /\ Len(docFacts) = 3 /\ \A i \in 1..3 : docFacts[i].id = None) =>
          fid = << <<"i", "x", "v", "-", "0">>, <<"i", "x", "v", "-", "1">>,
                   <<"i", "x", "v", "-", "2">> >>

\* a fact with an id of its own is followed by two without: the second of
\* them is numbered by its position, not by the count of generated ids
C4_Witness ==
    /\ Assembled
    /\ Len(docFacts) = 3
    /\ docFacts[1].id = <<"f", "1">>
    /\ docFacts[2].id = None
    /\ docFacts[3].id = None
    /\ fid = << <<"f", "1">>, <<"i", "x", "v", "-", "1">>, <<"i", "x", "v", "-", "2">> >>
    /\ DOMAIN taxonomyData.facts = {fid[1], fid[2], fid[3]}

\* C5: every Fact Record carries either pt alone or both pf and pt
C5_TemporalScope ==
    \A k \in DOMAIN taxonomyData.facts :
        LET r == taxonomyData.facts[k] IN
        \/ "pt" \in DOMAIN r /\ "pf" \notin DOMAIN r
        \/ "pt" \in DOMAIN r /\ "pf" \in DOMAIN r

\* C6: once assembled, the Output Document has exactly the members concepts,
\* facts, prefixes and roles (facts and concepts empty for an empty fact
\* list), and roles binds "std" to the standard label role and "doc" to the
\* documentation label role
C6_SchemaCompleteness ==
    Assembled =>
        /\ DOMAIN taxonomyData = {"concepts", "facts", "prefixes", "roles"}
        /\ docFacts = <<>> =>
              /\ DOMAIN taxonomyData.facts = {}
              /\ DOMAIN taxonomyData.concepts = {}
        /\ <<"s", "t", "d">> \in DOMAIN taxonomyData.roles
        /\ taxonomyData.roles[<<"s", "t", "d">>] = standardLabel
        /\ <<"d", "o", "c">> \in DOMAIN taxonomyData.roles
        /\ taxonomyData.roles[<<"d", "o", "c">>] = documentationLabel
        /\ roleMap.nsmap[standardLabel] = <<"s", "t", "d">>
        /\ roleMap.nsmap[documentationLabel] = <<"d", "o", "c">>

\* a build whose concepts carried standard and terse labels
C6_Witness ==
    /\ pc = "done"
    /\ terseLabel \in DOMAIN roleMap.nsmap
    /\ <<"n", "s", "0">> \in DOMAIN taxonomyData.roles
    /\ \E c \in DOMAIN taxonomyData.concepts :
          <<"s", "t", "d">> \in DOMAIN taxonomyData.concepts[c].labels

\* C7: addConcept on a concept whose name is already a key of concepts
\* leaves concepts and the role allocator unchanged, whatever labels the
\* model returns this time; a recorded Concept Record never changes
C7_IdempotentConceptCollection ==
    [][ /\ (calls # <<>> /\
            qname(nsmap, Head(calls)).name \in DOMAIN taxonomyData.concepts) =>
               /\ taxonomyData'.concepts = taxonomyData.concepts
               /\ roleMap' = roleMap
        /\ \A c \in DOMAIN taxonomyData.concepts :
               /\ c \in DOMAIN taxonomyData'.concepts
               /\ taxonomyData'.concepts[c] = taxonomyData.concepts[c]
      ]_buildVars

\* a concept recorded without labels was added again while the model returned
\* labels, one of them in a role not yet allocated
C7_Witness ==
    /\ lastAdd.existed
    /\ Len(lastAdd.labels) = 2
    /\ terseLabel \notin DOMAIN roleMap.nsmap
    /\ DOMAIN taxonomyData.concepts[lastAdd.name].labels = {}

\* C9: when the build fails while opening, serializing or writing, the output
\* file is as it was before or holds the complete document
C9_WriteAtomicity ==
    pc = "failed" => outFile \in {"previous", "complete"}

\* C10: the facts mapping holds one entry per source fact: the ids the Fact
\* Records are stored under are pairwise distinct
C10_OneRecordPerFact ==
    Assembled =>
        /\ Cardinality(DOMAIN taxonomyData.facts) = Len(docFacts)
        /\ \A i, j \in DOMAIN fid : i # j => fid[i] # fid[j]

----------------------------------------------------------------------------
(* Properties of the escaping, checked under SpecEscape *)

\* the escape each character stands for
EscapeOf(ch) ==
    CASE ch = "<" -> U003C
      [] ch = ">" -> U003E
      [] ch = "&" -> U0026
      [] OTHER -> <<ch>>

RECURSIVE Substitute(_)
Substitute(s) == IF s = <<>> THEN <<>> ELSE EscapeOf(Head(s)) \o Substitute(Tail(s))

\* the three replacements, applied in the given order
ReplaceInOrder(s, order) ==
    LET r(t, ch) == Replace(t, ch, EscapeOf(ch)) IN
    r(r(r(s, order[1]), order[2]), order[3])

Orders == {o \in [1..3 -> {"<", ">", "&"}] : {o[1], o[2], o[3]} = {"<", ">", "&"}}

\* C8: the escaped text has no literal <, > or &, is the payload with each of
\* them replaced by its \u escape and every other character kept in place,
\* is the same whatever order the three replacements run in, and parses as
\* JSON to the original string value
C8_DualEscapingRoundTrip ==
    /\ epc \in {"escaped", "parsed"} =>
          /\ \A i \in DOMAIN escaped : escaped[i] \notin {"<", ">", "&"}
          /\ escaped = Substitute(payload)
          /\ \A o \in Orders : ReplaceInOrder(payload, o) = escaped
    /\ epc = "parsed" => decoded = [ok |-> TRUE, value |-> value]

\* a value holding a backslash right before '<', and '&', made the round trip
C8_Witness ==
    /\ epc = "parsed"
    /\ value = <<"\\", "<", "&">>
    /\ decoded.value = value
    /\ Len(escaped) = 16

====
